---------------------------- MODULE Spec2Model ----------------------------
(***************************************************************************)
(* A model of mucaster's cast session: the Caster (src/cast/mod.rs), its   *)
(* background status threads, the command calls that open their own        *)
(* connection, device discovery (find_chromecasts) and the Api facade      *)
(* (src/api/mod.rs) that selects a discovered device.  The Chromecast and  *)
(* the network are the environment.                                        *)
(***************************************************************************)
EXTENDS Integers, Sequences, FiniteSets, TLC

VARIABLES
    device_addr,            \* Caster.device_addr: None or an address string
    shutdown_tx,            \* Caster.shutdown_tx: 0 (None) or the thread whose channel it feeds
    status,                 \* Caster.status: the shared MediaStatus cell
    pc,                     \* per status thread: where it is in the closure of begin_cast
    chan,                   \* per status thread: state of its shutdown channel
    status_delay,           \* per status thread: local status_delay
    millis_since_last,      \* per status thread: time elapsed since last_media_status
    dev,                    \* the cast device: running application and media entries
    proc,                   \* "running", or "crashed" after a panic on the calling thread
    last,                   \* what the most recent foreground call did and returned
    io,                     \* the most recent device I/O of a status thread's loop: the thread,
                            \* what it did, on which connection and, for a fetch, its elapsed time
    discovered_chromecasts, \* Api.discovered_chromecasts
    current_chromecast,     \* Api.current_chromecast
    ser,                    \* one call of MediaStatus::serialize: the value and what was written
    scan                    \* one call of find_chromecasts: what the network yields, and its result

vars == <<device_addr, shutdown_tx, status, pc, chan, status_delay,
          millis_since_last, dev, proc, last, io, discovered_chromecasts,
          current_chromecast, ser, scan>>

casterVars == <<device_addr, shutdown_tx, status>>
threadVars == <<pc, chan, status_delay, millis_since_last>>
apiVars == <<discovered_chromecasts, current_chromecast, ser, scan>>

---------------------------------------------------------------------------
\* Bounds of the model

\* status threads one Caster may spawn in a run
MaxThreads == 2
\* media entries the device may report
MaxEntries == 2
\* items the discovery stream yields within the scan window
MaxStream == 2
\* DNS records in one response of the stream
MaxRecords == 2
\* largest playback time and media duration, in seconds
MaxSeconds == 2

---------------------------------------------------------------------------
\* Program constants

STATUS_UPDATE_INTERVAL == 500
FIRST_STATUS_DELAY == 5000

\* the clock is observed in steps of the first delay; the loop only tests
\* whether the elapsed time has reached a delay, so later times add no case
TickMs == FIRST_STATUS_DELAY
ElapsedCap == FIRST_STATUS_DELAY
\* the step of the fine clock: one polling interval
ElapseMs == STATUS_UPDATE_INTERVAL

---------------------------------------------------------------------------
\* Values

None == "None"
Threads == 1..MaxThreads
CasterAddrs == {"10.0.0.5"}

PlayerStates == {"PLAYING", "PAUSED"}
EntryLists == UNION {[1..n -> PlayerStates] : n \in 0..MaxEntries}

Inactive == [kind |-> "Inactive", entry |-> None]
Active(entry) == [kind |-> "Active", entry |-> entry]

PlayerSignal == {"Play", "Pause", "Stop", "Seek"}
NoSignal == "NoSignal"

\* IpAddr values: version and host
Ip(v, n) == [v |-> v, n |-> n]
NoIp == Ip(0, 0)
\* no (name, address) pair
NoDevice == <<None, NoIp>>

\* the first I/O step of a command call that fails, if any
CommandFailures == {"none", "tcp", "handshake", "receiver_status",
                    "app_connect", "media_status", "control", "disconnect"}

\* connections: none, the one status thread t opens in its set-up, and the one
\* the command call in progress opened
NoConn == 0
ThreadConn(t) == t
CallConn == MaxThreads + 1

\* no status thread has done device I/O in its loop
NoIo == [t |-> 0, did |-> "none", conn |-> 0, at |-> 0]

\* serialize has not returned
NotSerialized == [res |-> "pending", declared |-> 0, fields |-> <<>>]
\* no call of serialize is being observed
NoSer == [value |-> [kind |-> "Inactive", entry |-> None], out |-> NotSerialized]

\* find_chromecasts has not returned
NotRun == [res |-> "pending", list |-> <<>>]
\* no call of find_chromecasts is being observed
NoScan == [openOk |-> TRUE, stream |-> <<>>, http |-> <<>>, found |-> NotRun]

\* a call that was not made
NoCall == [res |-> "not_called", opened |-> FALSE, conn |-> 0, disconnected |-> FALSE,
           sent |-> NoSignal]

\* the process runs: its main thread has not panicked; the Caster may be gone
ProcessUp == proc \in {"running", "dropped"}

LiveThread(t) == pc[t] \in {"setup", "poll", "recv", "fetch"}
LiveThreads == {t \in Threads : LiveThread(t)}
Spawned == {t \in Threads : pc[t] # "unborn"}

---------------------------------------------------------------------------
\* Caster::new and Api::new

\* a constructor that starts the status cell as Active
InitActive ==
    /\ device_addr = None
    /\ shutdown_tx = 0
    /\ status = Active("PLAYING")
    /\ pc = [t \in Threads |-> "unborn"]
    /\ chan = [t \in Threads |-> "open"]
    /\ status_delay = [t \in Threads |-> FIRST_STATUS_DELAY]
    /\ millis_since_last = [t \in Threads |-> 0]
    /\ dev = [app |-> FALSE, media |-> <<>>]
    /\ proc = "running"
    /\ last = [op |-> "new", res |-> "ok", call |-> NoCall]
    /\ io = NoIo
    /\ discovered_chromecasts = <<>>
    /\ current_chromecast = NoDevice
    /\ ser = NoSer
    /\ scan = NoScan

Init ==
    /\ device_addr = None
    /\ shutdown_tx = 0
    /\ status = Inactive
    /\ pc = [t \in Threads |-> "unborn"]
    /\ chan = [t \in Threads |-> "open"]
    /\ status_delay = [t \in Threads |-> FIRST_STATUS_DELAY]
    /\ millis_since_last = [t \in Threads |-> 0]
    /\ dev = [app |-> FALSE, media |-> <<>>]
    /\ proc = "running"
    /\ last = [op |-> "new", res |-> "ok", call |-> NoCall]
    /\ io = NoIo
    /\ discovered_chromecasts = <<>>
    /\ current_chromecast = NoDevice
    /\ ser = NoSer
    /\ scan = NoScan

\* Caster::is_streaming
is_streaming == device_addr # None /\ status # Inactive

\* Caster::set_device_addr
set_device_addr(addr) ==
    /\ proc = "running"
    /\ device_addr' = addr
    /\ last' = [op |-> "set_device_addr", res |-> "ok", call |-> NoCall]
    /\ UNCHANGED <<shutdown_tx, status, threadVars, dev, proc, io, apiVars>>

---------------------------------------------------------------------------
\* Command calls: each opens its own connection

\* a connect that hands out the connection of the Caster's status thread
connect_shared(fail) ==
    IF device_addr = None
    THEN [res |-> "err_no_device", opened |-> FALSE, conn |-> NoConn]
    ELSE IF fail = "tcp"
    THEN [res |-> "panic", opened |-> FALSE, conn |-> NoConn]
    ELSE IF fail = "handshake"
    THEN [res |-> "panic", opened |-> TRUE, conn |-> CallConn]
    ELSE [res |-> "ok", opened |-> TRUE,
          conn |-> IF shutdown_tx # 0 THEN ThreadConn(shutdown_tx) ELSE CallConn]

\* Caster::connect: a CastDevice on a connection of its own, an error value, or
\* a panic
connect(fail) ==
    IF device_addr = None
    THEN [res |-> "err_no_device", opened |-> FALSE, conn |-> NoConn]
    ELSE IF fail = "tcp"
    THEN [res |-> "panic", opened |-> FALSE, conn |-> NoConn]
    ELSE IF fail = "handshake"
    THEN [res |-> "panic", opened |-> TRUE, conn |-> CallConn]
    ELSE [res |-> "ok", opened |-> TRUE, conn |-> CallConn]

\* what the device does with a control message addressed to its first media session
DeviceApply(state, media) ==
    CASE state = "Play" -> [media EXCEPT ![1] = "PLAYING"]
      [] state = "Pause" -> [media EXCEPT ![1] = "PAUSED"]
      [] state = "Stop" -> Tail(media)
      [] state = "Seek" -> media

CallResult(res, opened, disconnected, sent, media) ==
    [res |-> res, opened |-> opened, conn |-> NoConn, disconnected |-> disconnected,
     sent |-> sent, media |-> media]

\* Caster::change_media_state: the outcome of the call and the device's media after it
change_media_state(state, fail) ==
    LET device == connect(fail)
        r ==
        IF device.res # "ok"
        THEN CallResult(device.res, device.opened, FALSE, NoSignal, dev.media)
        ELSE IF fail = "receiver_status"
        THEN CallResult("err_cast", TRUE, FALSE, NoSignal, dev.media)
        ELSE IF ~dev.app
        THEN CallResult("panic", TRUE, FALSE, NoSignal, dev.media)
        ELSE IF fail \in {"app_connect", "media_status"}
        THEN CallResult("err_cast", TRUE, FALSE, NoSignal, dev.media)
        ELSE IF dev.media = <<>>
        THEN CallResult("err_no_media", TRUE, FALSE, NoSignal, dev.media)
        ELSE IF fail = "control"
        THEN CallResult("err_cast", TRUE, FALSE, state, dev.media)
        ELSE IF fail = "disconnect"
        THEN CallResult("panic", TRUE, FALSE, state, DeviceApply(state, dev.media))
        ELSE CallResult("ok", TRUE, TRUE, state, DeviceApply(state, dev.media))
    IN [r EXCEPT !.conn = device.conn]

\* the part of a call's outcome the caller can observe
Observed(r) ==
    [res |-> r.res, opened |-> r.opened, conn |-> r.conn,
     disconnected |-> r.disconnected,
     sent |-> r.sent]

OpName(state) ==
    CASE state = "Play" -> "resume"
      [] state = "Pause" -> "pause"
      [] state = "Stop" -> "stop"
      [] state = "Seek" -> "seek"

\* a command that also writes the status cell with what it asked the device for
CommandUpdatesStatus(state, fail) ==
    /\ proc = "running"
    /\ LET r == change_media_state(state, fail) IN
        /\ last' = [op |-> OpName(state), res |-> r.res, call |-> Observed(r)]
        /\ dev' = [dev EXCEPT !.media = r.media]
        /\ proc' = IF r.res = "panic" THEN "crashed" ELSE "running"
        /\ status' = IF r.res = "ok"
                     THEN (IF r.media = <<>> THEN Inactive ELSE Active(r.media[1]))
                     ELSE status
    /\ UNCHANGED <<device_addr, shutdown_tx, threadVars, io, apiVars>>

\* Caster::resume, pause, stop, seek called by the owner of the Caster
Command(state, fail) ==
    /\ proc = "running"
    /\ LET r == change_media_state(state, fail) IN
        /\ last' = [op |-> OpName(state), res |-> r.res, call |-> Observed(r)]
        /\ dev' = [dev EXCEPT !.media = r.media]
        /\ proc' = IF r.res = "panic" THEN "crashed" ELSE "running"
    /\ UNCHANGED <<casterVars, threadVars, io, apiVars>>

---------------------------------------------------------------------------
\* Session lifecycle

\* Sender::send on the channel of thread t, then dropping the sender; the send
\* fails, and is ignored, when the thread has dropped its receiver
SendShutdown(t) ==
    IF chan[t] = "open" THEN [chan EXCEPT ![t] = "signaled"] ELSE chan

\* Caster::close
close(fail) ==
    /\ proc = "running"
    /\ LET r == IF is_streaming THEN change_media_state("Stop", fail)
                ELSE CallResult("not_called", FALSE, FALSE, NoSignal, dev.media)
           stopped == r.res \in {"ok", "not_called"}
       IN
        /\ dev' = [dev EXCEPT !.media = r.media]
        /\ last' = [op |-> "close", res |-> IF stopped THEN "ok" ELSE "panic",
                    call |-> Observed(r)]
        /\ proc' = IF stopped THEN "running" ELSE "crashed"
        /\ IF stopped /\ shutdown_tx # 0
           THEN /\ chan' = SendShutdown(shutdown_tx)
                /\ shutdown_tx' = 0
           ELSE UNCHANGED <<chan, shutdown_tx>>
    /\ UNCHANGED <<device_addr, status, pc, status_delay, millis_since_last, io,
                   apiVars>>

\* Drop for Caster: close(), after which the Caster is gone
drop(fail) ==
    /\ proc = "running"
    /\ LET r == IF is_streaming THEN change_media_state("Stop", fail)
                ELSE CallResult("not_called", FALSE, FALSE, NoSignal, dev.media)
           stopped == r.res \in {"ok", "not_called"}
       IN
        /\ dev' = [dev EXCEPT !.media = r.media]
        /\ last' = [op |-> "drop", res |-> IF stopped THEN "ok" ELSE "panic",
                    call |-> Observed(r)]
        /\ proc' = IF stopped THEN "dropped" ELSE "crashed"
        /\ IF stopped /\ shutdown_tx # 0
           THEN /\ chan' = SendShutdown(shutdown_tx)
                /\ shutdown_tx' = 0
           ELSE UNCHANGED <<chan, shutdown_tx>>
    /\ UNCHANGED <<device_addr, status, pc, status_delay, millis_since_last, io,
                   apiVars>>

\* the thread begin_cast spawns next
NextThread == CHOOSE t \in Threads : pc[t] = "unborn" /\ \A u \in Threads : u < t => pc[u] # "unborn"

\* a replacement that keeps the old sender alive
DropSenderLeaks(ch) == ch

\* replacing Caster.shutdown_tx drops the sender it held
DropSender(ch) ==
    IF shutdown_tx # 0 /\ ch[shutdown_tx] = "open"
    THEN [ch EXCEPT ![shutdown_tx] = "dropped"]
    ELSE ch

\* begin_cast without its test of device_addr
begin_cast_unchecked ==
    /\ proc = "running"
    /\ \E t \in Threads : pc[t] = "unborn"
    /\ LET t == NextThread IN
        /\ chan' = [DropSender(chan) EXCEPT ![t] = "open"]
        /\ shutdown_tx' = t
        /\ pc' = [pc EXCEPT ![t] = "setup"]
        /\ status_delay' = [status_delay EXCEPT ![t] = FIRST_STATUS_DELAY]
        /\ millis_since_last' = [millis_since_last EXCEPT ![t] = 0]
    /\ last' = [op |-> "begin_cast", res |-> "ok", call |-> NoCall]
    /\ UNCHANGED <<device_addr, status, dev, proc, io, apiVars>>

\* Caster::begin_cast
begin_cast ==
    /\ proc = "running"
    /\ IF device_addr = None
       THEN /\ last' = [op |-> "begin_cast", res |-> "err_no_device", call |-> NoCall]
            /\ UNCHANGED <<shutdown_tx, threadVars>>
       ELSE /\ \E t \in Threads : pc[t] = "unborn"
            /\ LET t == NextThread IN
                /\ chan' = [DropSender(chan) EXCEPT ![t] = "open"]
                /\ shutdown_tx' = t
                /\ pc' = [pc EXCEPT ![t] = "setup"]
                /\ status_delay' = [status_delay EXCEPT ![t] = FIRST_STATUS_DELAY]
                /\ millis_since_last' = [millis_since_last EXCEPT ![t] = 0]
            /\ last' = [op |-> "begin_cast", res |-> "ok", call |-> NoCall]
    /\ UNCHANGED <<device_addr, status, dev, proc, io, apiVars>>

---------------------------------------------------------------------------
\* The status thread: the closure begin_cast spawns

\* thread t ends, by returning ("exited") or by unwinding from a failed unwrap
\* ("setup_failed" before the loop, "panicked" in it): its locals and its receiver
\* are dropped
Ended(t, how) ==
    /\ pc' = [pc EXCEPT ![t] = how]
    /\ chan' = [chan EXCEPT ![t] = "closed"]
    /\ status_delay' = [status_delay EXCEPT ![t] = FIRST_STATUS_DELAY]
    /\ millis_since_last' = [millis_since_last EXCEPT ![t] = 0]

\* the first step of the thread's set-up that fails, if any: each is unwrapped
SetupFailures == {"none", "tcp", "handshake", "launch", "local_ip",
                  "app_connect", "load"}

\* the device after launch_app and media.load succeeded
Loaded == [app |-> TRUE, media |-> <<"PLAYING">>]

\* connect, launch the media receiver, connect to it and load the media
ThreadSetup(t, fail) ==
    /\ ProcessUp
    /\ pc[t] = "setup"
    /\ IF fail = "none"
       THEN /\ pc' = [pc EXCEPT ![t] = "poll"]
            /\ dev' = Loaded
            /\ UNCHANGED <<chan, status_delay, millis_since_last>>
       ELSE /\ Ended(t, "setup_failed")
            /\ UNCHANGED dev
    /\ UNCHANGED <<casterVars, proc, last, io, apiVars>>

\* a poll that takes an empty channel for a closed one: it goes on only when
\* the shutdown message is there
ThreadPollInverted(t) ==
    /\ ProcessUp
    /\ pc[t] = "poll"
    /\ IF chan[t] = "signaled"
       THEN /\ pc' = [pc EXCEPT ![t] = "recv"]
            /\ UNCHANGED <<chan, status_delay, millis_since_last>>
       ELSE Ended(t, "exited")
    /\ UNCHANGED <<casterVars, dev, proc, last, io, apiVars>>

\* shutdown_rx.try_recv at the top of the loop
ThreadPoll(t) ==
    /\ ProcessUp
    /\ pc[t] = "poll"
    /\ IF chan[t] = "open"
       THEN /\ pc' = [pc EXCEPT ![t] = "recv"]
            /\ UNCHANGED <<chan, status_delay, millis_since_last>>
       ELSE Ended(t, "exited")
    /\ UNCHANGED <<casterVars, dev, proc, last, io, apiVars>>

\* what device.receive can return
DeviceMessages == {"Connection", "Media", "Receiver", "Raw", "Ping", "Pong",
                   "RecvError"}

\* a loop that requests the status after every receive, whatever time elapsed
AfterReceiveNoTest(t) == "fetch"

\* where the loop goes after handle_device_status: the elapsed-time test
AfterReceive(t) ==
    IF millis_since_last[t] >= status_delay[t] THEN "fetch" ELSE "poll"

\* a handler that answers either heartbeat message with a pong
handle_device_status_echo(msg, pongOk) ==
    CASE msg = "RecvError" -> "receive_failed"
      [] msg \in {"Ping", "Pong"} -> IF pongOk THEN "pong" ELSE "pong_failed"
      [] OTHER -> "receive"

\* Caster::handle_device_status: what the thread does on its connection with
\* the outcome of device.receive; pongOk is the outcome of heartbeat.pong
handle_device_status(msg, pongOk) ==
    CASE msg = "RecvError" -> "receive_failed"
      [] msg = "Ping" -> IF pongOk THEN "pong" ELSE "pong_failed"
      [] OTHER -> "receive"

\* the call of handle_device_status, then the test of millis_since_last; only a
\* Ping calls heartbeat.pong, whose failure is unwrapped
ThreadReceive(t, msg, pongOk) ==
    /\ ProcessUp
    /\ pc[t] = "recv"
    /\ msg = "Ping" \/ pongOk
    /\ io' = [t |-> t, did |-> handle_device_status(msg, pongOk),
              conn |-> ThreadConn(t), at |-> 0]
    /\ IF handle_device_status(msg, pongOk) = "pong_failed"
       THEN Ended(t, "panicked")
       ELSE /\ pc' = [pc EXCEPT ![t] = AfterReceive(t)]
            /\ status_delay' =
                 IF AfterReceive(t) = "fetch"
                 THEN [status_delay EXCEPT ![t] = STATUS_UPDATE_INTERVAL]
                 ELSE status_delay
            /\ UNCHANGED <<chan, millis_since_last>>
    /\ UNCHANGED <<casterVars, dev, proc, last, apiVars>>

\* a mapping that takes the last entry
MapStatusLast(entries) ==
    IF entries # <<>> THEN Active(entries[Len(entries)]) ELSE Inactive

\* the MediaStatus a fetched list of entries maps to
MapStatus(entries) ==
    IF entries # <<>> THEN Active(Head(entries)) ELSE Inactive

\* a fetch whose failure is unwrapped
ThreadFetchUnwrap(t, ok) ==
    /\ ProcessUp
    /\ pc[t] = "fetch"
    /\ io' = [t |-> t, did |-> IF ok THEN "get_status" ELSE "get_status_failed",
              conn |-> ThreadConn(t), at |-> millis_since_last[t]]
    /\ IF ok
       THEN /\ pc' = [pc EXCEPT ![t] = "poll"]
            /\ status' = MapStatus(dev.media)
            /\ millis_since_last' = [millis_since_last EXCEPT ![t] = 0]
            /\ UNCHANGED <<chan, status_delay>>
       ELSE /\ Ended(t, "panicked")
            /\ UNCHANGED status
    /\ UNCHANGED <<device_addr, shutdown_tx, dev, proc, last, apiVars>>

\* device.media.get_status and the write of the status cell
ThreadFetch(t, ok) ==
    /\ ProcessUp
    /\ pc[t] = "fetch"
    /\ pc' = [pc EXCEPT ![t] = "poll"]
    /\ io' = [t |-> t, did |-> IF ok THEN "get_status" ELSE "get_status_failed",
              conn |-> ThreadConn(t), at |-> millis_since_last[t]]
    /\ IF ok
       THEN /\ status' = MapStatus(dev.media)
            /\ millis_since_last' = [millis_since_last EXCEPT ![t] = 0]
       ELSE UNCHANGED <<status, millis_since_last>>
    /\ UNCHANGED <<device_addr, shutdown_tx, chan, status_delay, dev, proc, last,
                   apiVars>>

---------------------------------------------------------------------------
\* The environment

\* the states the device can be in: media needs a running application
DeviceStates ==
    {d \in [app : BOOLEAN, media : EntryLists] : ~d.app => d.media = <<>>}

\* the device changes on its own or at another sender's request
DeviceChanges(d) ==
    /\ ProcessUp
    /\ d # dev
    /\ dev' = d
    /\ UNCHANGED <<casterVars, threadVars, proc, last, io, apiVars>>

\* time passes for every live status thread
Tick ==
    /\ ProcessUp
    /\ \E t \in LiveThreads : millis_since_last[t] < ElapsedCap
    /\ millis_since_last' =
         [t \in Threads |->
            IF LiveThread(t) /\ millis_since_last[t] < ElapsedCap
            THEN millis_since_last[t] + TickMs
            ELSE millis_since_last[t]]
    /\ UNCHANGED <<casterVars, pc, chan, status_delay, dev, proc, last, io, apiVars>>

\* time passes by one polling interval for the live threads
Elapse ==
    /\ ProcessUp
    /\ \E t \in LiveThreads : millis_since_last[t] < ElapsedCap
    /\ millis_since_last' =
         [t \in Threads |->
            IF LiveThread(t) /\ millis_since_last[t] < ElapsedCap
            THEN millis_since_last[t] + ElapseMs
            ELSE millis_since_last[t]]
    /\ UNCHANGED <<casterVars, pc, chan, status_delay, dev, proc, last, io, apiVars>>

---------------------------------------------------------------------------
\* The session specification: one Caster, its threads and the device.  The
\* owner's resume, pause, stop and seek are left to SpecCommand and SpecSession:
\* they touch only the device, which DeviceChanges already moves freely.

Next ==
    \/ \E addr \in CasterAddrs : set_device_addr(addr)
    \/ begin_cast
    \/ \E fail \in CommandFailures : close(fail)
    \/ \E t \in Threads, fail \in SetupFailures : ThreadSetup(t, fail)
    \/ \E t \in Threads : ThreadPoll(t)
    \/ \E t \in Threads, msg \in DeviceMessages, pongOk \in BOOLEAN :
          ThreadReceive(t, msg, pongOk)
    \/ \E t \in Threads, ok \in BOOLEAN : ThreadFetch(t, ok)
    \/ \E d \in DeviceStates : DeviceChanges(d)
    \/ Tick

Spec == Init /\ [][Next]_vars

\* a step of status thread t
ThreadStep(t) ==
    \/ \E fail \in SetupFailures : ThreadSetup(t, fail)
    \/ ThreadPoll(t)
    \/ \E msg \in DeviceMessages, pongOk \in BOOLEAN : ThreadReceive(t, msg, pongOk)
    \/ \E ok \in BOOLEAN : ThreadFetch(t, ok)

\* The session with its threads scheduled: a spawned thread keeps running, and
\* every device call it makes, the blocking receive included, returns
SpecFair == Spec /\ \A t \in Threads : WF_vars(ThreadStep(t))

\* The session on the fine clock: elapsed times are the multiples of the polling
\* interval up to the first delay; the device is changed by the Caster only
NextTiming ==
    \/ \E addr \in CasterAddrs : set_device_addr(addr)
    \/ begin_cast
    \/ \E fail \in CommandFailures : close(fail)
    \/ \E t \in Threads, fail \in SetupFailures : ThreadSetup(t, fail)
    \/ \E t \in Threads : ThreadPoll(t)
    \/ \E t \in Threads, msg \in DeviceMessages, pongOk \in BOOLEAN :
          ThreadReceive(t, msg, pongOk)
    \/ \E t \in Threads, ok \in BOOLEAN : ThreadFetch(t, ok)
    \/ Elapse

SpecTiming == Init /\ [][NextTiming]_vars

\* a step of status thread t that does not wait for the device to send: its
\* set-up, its poll of the shutdown channel and its status request
ThreadStepUnblocked(t) ==
    \/ \E fail \in SetupFailures : ThreadSetup(t, fail)
    \/ ThreadPoll(t)
    \/ \E ok \in BOOLEAN : ThreadFetch(t, ok)

\* The session on the fine clock with its threads scheduled and a device that
\* may stay silent: the blocking receive returns only when a message or an
\* error arrives, so no fairness is assumed of it
SpecQuiet == SpecTiming /\ \A t \in Threads : WF_vars(ThreadStepUnblocked(t))

\* The session until its Caster is dropped; its threads run on
NextTeardown ==
    \/ Next
    \/ \E fail \in CommandFailures : drop(fail)

SpecTeardown == Init /\ [][NextTeardown]_vars

\* A Caster that never begins a cast: its owner selects, commands and closes
NextCommand ==
    \/ \E addr \in CasterAddrs : set_device_addr(addr)
    \/ \E fail \in CommandFailures : close(fail)
    \/ \E state \in PlayerSignal, fail \in CommandFailures : Command(state, fail)
    \/ \E d \in DeviceStates : DeviceChanges(d)

SpecCommand == Init /\ [][NextCommand]_vars

\* The session together with its owner's commands, whose own I/O succeeds
NextSession ==
    \/ Next
    \/ \E state \in PlayerSignal : Command(state, "none")

SpecSession == Init /\ [][NextSession]_vars

---------------------------------------------------------------------------
\* Discovery: cast::find_chromecasts

Ips == {Ip(4, 5), Ip(4, 6), Ip(6, 1)}

Digit(n) == CASE n = 1 -> "1" [] n = 5 -> "5" [] n = 6 -> "6"

\* IpAddr::to_string
IpToString(ip) ==
    IF ip.v = 4 THEN "10.0.0." \o Digit(ip.n) ELSE "fe80::" \o Digit(ip.n)

\* DNS records of a response: address records and others
Records ==
    {[kind |-> "PTR", addr |-> Ip(4, 5)]}
    \cup {[kind |-> IF ip.v = 4 THEN "A" ELSE "AAAA", addr |-> ip] : ip \in Ips}

\* to_ip_addr
to_ip_addr(record) ==
    IF record.kind \in {"A", "AAAA"} THEN record.addr ELSE NoIp

\* resp.records().find_map(to_ip_addr)
RECURSIVE find_map(_)
find_map(records) ==
    IF records = <<>> THEN NoIp
    ELSE IF to_ip_addr(Head(records)) # NoIp THEN to_ip_addr(Head(records))
    ELSE find_map(Tail(records))

Contains(seq, x) == \E i \in 1..Len(seq) : seq[i] = x

\* the listening loop: stops at the end of the stream or at its first error item
RECURSIVE collect_ips(_, _)
collect_ips(stream, device_ips) ==
    IF stream = <<>> \/ Head(stream).ok = FALSE THEN device_ips
    ELSE LET addr == find_map(Head(stream).records) IN
         collect_ips(Tail(stream),
                     IF addr # NoIp /\ ~Contains(device_ips, addr)
                     THEN Append(device_ips, addr)
                     ELSE device_ips)

\* what the description request of one device can yield
HttpOutcomes == {"refused", "non2xx", "no_body", "body_error", "bad_utf8",
                 "no_tag", "named"}

\* the name in a device's description document
FriendlyName(ip) == IF ip.n = 5 THEN "LivingRoomTV" ELSE "Bedroom"

\* whether "http://{ip}:8008/ssdp/device-desc.xml" parses as a Uri: an IPv6
\* address is written without brackets, which the authority parser rejects
UriParses(ip) == ip.v = 4

\* the name-gathering loop: the (name, ip) pairs, or a panic from an unwrap
RECURSIVE gather_names(_, _, _)
gather_names(device_ips, http, chromecasts) ==
    IF device_ips = <<>> THEN [res |-> "ok", list |-> chromecasts]
    ELSE LET ip == Head(device_ips) IN
         IF ~UriParses(ip) \/ http[ip] = "bad_utf8"
         THEN [res |-> "panic", list |-> <<>>]
         ELSE gather_names(Tail(device_ips), http,
                  Append(chromecasts,
                         <<IF http[ip] = "named" THEN FriendlyName(ip) ELSE "Unknown",
                           ip>>))

\* cast::find_chromecasts: Ok(list), Err(MDNSError) or a panic
find_chromecasts(openOk, stream, http) ==
    IF ~openOk THEN [res |-> "err_mdns", list |-> <<>>]
    ELSE gather_names(collect_ips(stream, <<>>), http, <<>>)

---------------------------------------------------------------------------
\* The discovery specification: one call of find_chromecasts on any network

\* stream items: a response with its records, or an error
StreamItems(maxRecords) ==
    {[ok |-> FALSE, records |-> <<>>]}
    \cup {[ok |-> TRUE, records |-> r] :
             r \in UNION {[1..n -> Records] : n \in 0..maxRecords}}

Streams(maxLen, maxRecords) ==
    UNION {[1..n -> StreamItems(maxRecords)] : n \in 0..maxLen}

\* what the mDNS stream and the devices' HTTP servers can yield to one call
ScanInputs ==
    [openOk : BOOLEAN, stream : Streams(MaxStream, MaxRecords),
     http : [Ips -> HttpOutcomes], found : {NotRun}]

InitDiscovery ==
    /\ device_addr = None
    /\ shutdown_tx = 0
    /\ status = Inactive
    /\ pc = [t \in Threads |-> "unborn"]
    /\ chan = [t \in Threads |-> "open"]
    /\ status_delay = [t \in Threads |-> FIRST_STATUS_DELAY]
    /\ millis_since_last = [t \in Threads |-> 0]
    /\ dev = [app |-> FALSE, media |-> <<>>]
    /\ proc = "running"
    /\ last = [op |-> "new", res |-> "ok", call |-> NoCall]
    /\ io = NoIo
    /\ discovered_chromecasts = <<>>
    /\ current_chromecast = NoDevice
    /\ ser = NoSer
    /\ scan \in ScanInputs

\* the call runs to its end
FindChromecasts ==
    /\ scan.found = NotRun
    /\ scan' = [scan EXCEPT
                  !.found = find_chromecasts(scan.openOk, scan.stream, scan.http)]
    /\ UNCHANGED <<casterVars, threadVars, dev, proc, last, io,
                   discovered_chromecasts, current_chromecast, ser>>

NextDiscovery == FindChromecasts

SpecDiscovery == InitDiscovery /\ [][NextDiscovery]_vars

---------------------------------------------------------------------------
\* Status serialization: impl Serialize for MediaStatus

\* PlayerState::to_string of rust-cast's player states
SerPlayerStates == {"IDLE", "PLAYING", "BUFFERING", "PAUSED"}
Seconds == 0..MaxSeconds
\* the None of an Option<f32>
NoSeconds == -1
\* StatusEntry.media: None, or a Media whose duration is None or a number
NoMedia == [present |-> FALSE, duration |-> NoSeconds]
Medias == {NoMedia} \cup [present : {TRUE}, duration : {NoSeconds} \cup Seconds]

\* the StatusEntry fields serialize reads
StatusEntries ==
    [player_state : SerPlayerStates, current_time : {NoSeconds} \cup Seconds,
     media : Medias]

\* MediaStatus values
MediaStatuses == {Inactive} \cup {Active(e) : e \in StatusEntries}

Written(declared, fields) == [res |-> "ok", declared |-> declared, fields |-> fields]

\* MediaStatus::serialize: the declared field count and the fields written, in
\* order, or a panic from media.duration.unwrap()
serialize(value) ==
    IF value = Inactive
    THEN Written(1, << <<"playbackState", "Inactive">> >>)
    ELSE LET entry == value.entry
             num_fields ==
                 1 + (IF entry.current_time # NoSeconds THEN 1 ELSE 0)
                   + (IF entry.media.present /\ entry.media.duration # NoSeconds
                      THEN 1 ELSE 0)
             state1 == << <<"playbackState", entry.player_state>> >>
             state2 == IF entry.media.present
                       THEN Append(state1, <<"videoLength", entry.media.duration>>)
                       ELSE state1
             state3 == IF entry.current_time # NoSeconds
                       THEN Append(state2, <<"currentTime", entry.current_time>>)
                       ELSE state2
         IN IF entry.media.present /\ entry.media.duration = NoSeconds
            THEN [res |-> "panic", declared |-> num_fields, fields |-> state1]
            ELSE Written(num_fields, state3)

InitSerialize ==
    /\ device_addr = None
    /\ shutdown_tx = 0
    /\ status = Inactive
    /\ pc = [t \in Threads |-> "unborn"]
    /\ chan = [t \in Threads |-> "open"]
    /\ status_delay = [t \in Threads |-> FIRST_STATUS_DELAY]
    /\ millis_since_last = [t \in Threads |-> 0]
    /\ dev = [app |-> FALSE, media |-> <<>>]
    /\ proc = "running"
    /\ last = [op |-> "new", res |-> "ok", call |-> NoCall]
    /\ io = NoIo
    /\ discovered_chromecasts = <<>>
    /\ current_chromecast = NoDevice
    /\ ser \in [value : MediaStatuses, out : {NotSerialized}]
    /\ scan = NoScan

\* the call runs to its end
Serialize ==
    /\ ser.out = NotSerialized
    /\ ser' = [ser EXCEPT !.out = serialize(ser.value)]
    /\ UNCHANGED <<casterVars, threadVars, dev, proc, last, io,
                   discovered_chromecasts, current_chromecast, scan>>

NextSerialize == Serialize

SpecSerialize == InitSerialize /\ [][NextSerialize]_vars

---------------------------------------------------------------------------
\* The Api facade: Api::handle_request

\* Put(DiscoverChromecasts), with Api::discover_chromecasts: a list is cached and
\* acknowledged; an Err is unwrapped by the handler; and when find_chromecasts
\* panics its task drops the reply sender, so the handler's try_recv loop never ends
Discover(openOk, stream, http) ==
    /\ proc = "running"
    /\ LET found == find_chromecasts(openOk, stream, http) IN
        /\ discovered_chromecasts' =
             IF found.res = "ok" THEN found.list ELSE discovered_chromecasts
        /\ last' = [op |-> "discover_chromecasts",
                    res |-> CASE found.res = "ok" -> "Success."
                              [] found.res = "err_mdns" -> "panic"
                              [] found.res = "panic" -> "hang",
                    call |-> NoCall]
        /\ proc' = CASE found.res = "ok" -> "running"
                     [] found.res = "err_mdns" -> "crashed"
                     [] found.res = "panic" -> "hung"
    /\ UNCHANGED <<casterVars, threadVars, dev, io, current_chromecast, ser, scan>>

\* a lookup that takes the first discovered device whatever addr is
FindDeviceAny(addr) ==
    IF discovered_chromecasts = <<>> THEN NoDevice ELSE discovered_chromecasts[1]

\* the first discovered device whose address prints as addr, or NoDevice
FindDevice(addr) ==
    LET hits == {i \in 1..Len(discovered_chromecasts) :
                    IpToString(discovered_chromecasts[i][2]) = addr}
    IN IF hits = {} THEN NoDevice
       ELSE discovered_chromecasts[CHOOSE i \in hits : \A j \in hits : i <= j]

\* Put(SelectChromecast(addr)), with Api::select_chromecast and set_device_addr
SelectChromecast(addr) ==
    /\ proc = "running"
    /\ LET device == FindDevice(addr) IN
        IF device # NoDevice
        THEN /\ current_chromecast' = device
             /\ device_addr' = IpToString(device[2])
             /\ last' = [op |-> "select_chromecast", res |-> "Success.",
                         call |-> NoCall]
        ELSE /\ last' = [op |-> "select_chromecast",
                         res |-> "Chromecast not found.", call |-> NoCall]
             /\ UNCHANGED <<current_chromecast, device_addr>>
    /\ UNCHANGED <<shutdown_tx, status, threadVars, dev, proc, io,
                   discovered_chromecasts, ser, scan>>

\* CastSignal: Begin and the four playback signals
CastSignals == {"Begin"} \cup PlayerSignal

ControlOp(signal) ==
    CASE signal = "Begin" -> "control_begin"
      [] signal = "Play" -> "control_play"
      [] signal = "Pause" -> "control_pause"
      [] signal = "Stop" -> "control_stop"
      [] signal = "Seek" -> "control_seek"

\* the reply handle_cast_signal sends before it looks at the signal
Acknowledged == "Request recieved."

\* Put(Control(signal)), with Api::handle_cast_signal: the reply is sent first;
\* nothing more is done unless the Caster is streaming; Begin is todo!(), and
\* the result of a playback call is unwrapped.  last.res is the reply sent.
HandleCastSignal(signal, fail) ==
    /\ proc = "running"
    /\ LET r == IF is_streaming /\ signal # "Begin"
                THEN change_media_state(signal, fail)
                ELSE CallResult("not_called", FALSE, FALSE, NoSignal, dev.media)
       IN
        /\ last' = [op |-> ControlOp(signal), res |-> Acknowledged,
                    call |-> Observed(r)]
        /\ dev' = [dev EXCEPT !.media = r.media]
        /\ proc' = IF is_streaming /\ (signal = "Begin" \/ r.res # "ok")
                   THEN "crashed" ELSE "running"
    /\ UNCHANGED <<casterVars, threadVars, io, apiVars>>

\* address strings a client may send: those of the known addresses, another
\* spelling of one, and one that is never discovered
RequestAddrs == {IpToString(ip) : ip \in Ips} \cup {"010.0.0.5", "10.0.0.9"}

\* description outcomes the Api specification draws from
ApiHttpOutcomes == {"refused", "named"}

NextApi ==
    \/ \E openOk \in BOOLEAN, stream \in Streams(MaxStream, 1),
          http \in [Ips -> ApiHttpOutcomes] : Discover(openOk, stream, http)
    \/ \E addr \in RequestAddrs : SelectChromecast(addr)

SpecApi == Init /\ [][NextApi]_vars

\* The Api's control requests on a Caster that selects a device and begins
NextControl ==
    \/ \E addr \in CasterAddrs : set_device_addr(addr)
    \/ begin_cast
    \/ \E t \in Threads : ThreadStep(t)
    \/ Tick
    \/ \E signal \in CastSignals, fail \in CommandFailures :
          HandleCastSignal(signal, fail)

SpecControl == Init /\ [][NextControl]_vars

---------------------------------------------------------------------------
\* Properties of the session lifecycle

CommandOps == {"resume", "pause", "stop", "seek"}

\* C1: in every reachable state at most one status thread of the Session is live
AtMostOneStatusThread == Cardinality(LiveThreads) <= 1

\* C2: begin returns success only once the thread's set-up has succeeded, and
\* after a failed set-up the Session does not hold that thread's shutdown sender
BeginFailsWhenSetupFails ==
    /\ (last.op = "begin_cast" /\ last.res = "ok")
          => (shutdown_tx # 0 /\ pc[shutdown_tx] \notin {"setup", "setup_failed"})
    /\ \A t \in Threads : pc[t] = "setup_failed" => shutdown_tx # t

\* C3: close() on a Session that holds no shutdown sender (never begun, or closed
\* since) returns normally, issues no Stop and leaves device_addr, shutdown_tx
\* and status as they were
CloseWhenIdleIsNoOp ==
    [][\A fail \in CommandFailures :
          (close(fail) /\ shutdown_tx = 0)
             => (last'.res = "ok" /\ last'.call = NoCall /\ UNCHANGED casterVars)]_vars

\* C4: in the state in which a successful begin has returned exactly one status
\* thread is live, and in the state in which close() has returned none is
OneThreadAfterBeginNoneAfterClose ==
    [][/\ (begin_cast /\ last'.res = "ok") => Cardinality(LiveThreads') = 1
       /\ \A fail \in CommandFailures :
             (close(fail) /\ last'.res = "ok") => LiveThreads' = {}]_vars

\* C5: when the Stop that close() issued failed, close() has still returned
\* normally, with the shutdown sender cleared
CloseSurvivesStopFailure ==
    (last.op = "close" /\ last.call.res \notin {"ok", "not_called"})
       => (last.res = "ok" /\ proc = "running" /\ shutdown_tx = 0)

\* the device has no running application, or one without a media entry
NoMediaSession == ~dev.app \/ dev.media = <<>>

\* C6: a command whose I/O all succeeds, on a device without a media session,
\* returns the no-active-media error and sends no control message
NoMediaIsAnError ==
    [][\A state \in PlayerSignal :
          (Command(state, "none") /\ device_addr # None /\ NoMediaSession)
             => (last'.res = "err_no_media" /\ last'.call.sent = NoSignal
                 /\ proc' = "running")]_vars

\* C7: a command call that opened a connection and returned has sent the
\* disconnect on it
CommandConnectionClosed ==
    (last.op \in CommandOps /\ last.res # "panic" /\ last.call.opened)
       => last.call.disconnected

\* C8: without a device address a command returns an error, opens no connection
\* and changes nothing of the Session; with one, a connection that cannot be
\* established is returned as an error value
ConnectFailureIsAnError ==
    [][\A state \in PlayerSignal, fail \in CommandFailures :
          Command(state, fail)
             => /\ device_addr = None
                   => (last'.res = "err_no_device" /\ ~last'.call.opened
                       /\ UNCHANGED <<casterVars, threadVars, dev, proc>>)
                /\ (device_addr # None /\ fail \in {"tcp", "handshake"})
                   => (last'.res \in {"err_cast", "err_io"} /\ proc' = "running")]_vars

\* C9: begin without a device address returns the no-device error, spawns no
\* thread and leaves shutdown_tx and status as they were; and while no address
\* was ever set the Session has no thread, no sender and an Inactive status
BeginWithoutDeviceFails ==
    /\ [](device_addr = None
             => (Spawned = {} /\ shutdown_tx = 0 /\ status = Inactive))
    /\ [][(begin_cast /\ device_addr = None)
             => (last'.op = "begin_cast" /\ last'.res = "err_no_device"
                 /\ UNCHANGED <<casterVars, threadVars, dev, proc>>)]_vars

\* C9 happens: a begin was refused for want of an address
BeginRefused ==
    /\ last.op = "begin_cast" /\ last.res = "err_no_device"
    /\ device_addr = None /\ Spawned = {}

---------------------------------------------------------------------------
\* Properties of the status thread

\* the states of a thread that is in its loop
InLoop(t) == pc[t] \in {"poll", "recv", "fetch"}

\* C11: when the receive on the status thread's connection fails, the thread
\* leaves its loop; the process keeps running and the status cell its value
ReceiveFailureEndsLoop ==
    [][\A t \in Threads :
          ThreadReceive(t, "RecvError", TRUE)
             => (~InLoop(t)' /\ proc' = "running" /\ status' = status)]_vars

\* C12: a failed status fetch leaves the status cell as it was and the thread
\* live, at the poll of the shutdown channel
FailedFetchKeepsLoop ==
    [][\A t \in Threads :
          ThreadFetch(t, FALSE)
             => (status' = status /\ pc'[t] = "poll" /\ chan'[t] = chan[t]
                 /\ proc' = "running")]_vars

\* C12 happens: a fetch failed while the cell held a fetched status, and the
\* thread is at its poll
FetchFailedStatusKept ==
    /\ io.did = "get_status_failed"
    /\ pc[io.t] = "poll"
    /\ status # Inactive

\* C13: a live thread whose channel holds the shutdown message, or whose sender
\* was dropped, eventually ends; a thread returns from its loop only at the
\* poll, and only when the channel is not open and empty
ShutdownReachesThread ==
    /\ \A t \in Threads :
          (LiveThread(t) /\ chan[t] \in {"signaled", "dropped"})
             ~> (~LiveThread(t) \/ proc # "running")
    /\ [][\A t \in Threads :
             (pc[t] # "exited" /\ pc'[t] = "exited")
                => (ThreadPoll(t) /\ chan[t] \in {"signaled", "dropped"})]_vars

\* C13 happens: close() sent the message and the thread has returned
ThreadExitedAfterClose ==
    /\ last.op = "close" /\ last.res = "ok"
    /\ shutdown_tx = 0
    /\ \E t \in Threads : pc[t] = "exited"

StatusWrittenOnlyByFetch ==
    [][status' # status
          => (io'.did = "get_status" /\ \E t \in Threads : ThreadFetch(t, TRUE))]_vars

\* C15 happens: a pause succeeded on the device and the cell still holds the
\* status fetched before it
StatusKeptByPause ==
    /\ last.op = "pause" /\ last.res = "ok"
    /\ status = Active("PLAYING")
    /\ dev.media # <<>> /\ dev.media[1] = "PAUSED"

\* C16: a successful fetch sets the status cell to Active of the first fetched
\* entry, or to Inactive when there is none, whatever it held; and the cell
\* always holds Inactive or the mapping of a fetched list
FetchOverwritesStatus ==
    /\ [](status \in {MapStatus(entries) : entries \in EntryLists})
    /\ [][\A t \in Threads :
             ThreadFetch(t, TRUE)
                => status' = (IF dev.media = <<>> THEN Inactive
                              ELSE Active(dev.media[1]))]_vars

\* C16 happens: the latest thread I/O is a successful fetch, the device reports
\* two different entries and the cell holds the first
FirstOfTwoFetched ==
    /\ io.did = "get_status"
    /\ dev.media = <<"PAUSED", "PLAYING">>
    /\ status = Active("PAUSED")

StreamingMeansLiveThread ==
    /\ is_streaming => LiveThreads # {}
    /\ (last.op = "close" /\ last.res = "ok") => ~is_streaming

\* C30: a begin that replaces the sender of a thread with an open channel
\* leaves that channel disconnected and holds the sender of the new thread; a
\* live thread whose sender the Caster does not hold eventually ends; and a
\* close() that returns signals the thread whose sender the Caster holds, and
\* no other
ReplacedThreadExits ==
    /\ [][(begin_cast /\ device_addr # None /\ shutdown_tx # 0
              /\ chan[shutdown_tx] = "open")
             => (/\ chan'[shutdown_tx] = "dropped"
                 /\ shutdown_tx' # shutdown_tx
                 /\ pc'[shutdown_tx'] = "setup"
                 /\ chan'[shutdown_tx'] = "open")]_vars
    /\ \A t \in Threads :
          (LiveThread(t) /\ shutdown_tx # t)
             ~> (~LiveThread(t) \/ proc # "running")
    /\ [][\A fail \in CommandFailures :
             (close(fail) /\ last'.res = "ok" /\ shutdown_tx # 0
                /\ chan[shutdown_tx] = "open")
               => (/\ chan'[shutdown_tx] = "signaled"
                   /\ \A u \in Threads \ {shutdown_tx} : chan'[u] = chan[u])]_vars

\* C30 happens: a second begin has replaced the sender of the first thread,
\* which is still in its loop
FirstThreadReplaced ==
    /\ last.op = "begin_cast" /\ last.res = "ok"
    /\ shutdown_tx = 2
    /\ InLoop(1) /\ chan[1] = "dropped"

---------------------------------------------------------------------------
\* Properties of a Caster that never begins

\* C17: without a begin call the status is Inactive after every sequence of
\* selections, commands and closes
InactiveWithoutBegin == status = Inactive /\ ~is_streaming

\* C17 happens: a command succeeded on the device and the status is Inactive
CommandDoneStatusInactive ==
    /\ last.op \in CommandOps /\ last.res = "ok"
    /\ device_addr # None
    /\ status = Inactive

---------------------------------------------------------------------------
\* Properties of the Api facade

\* addr is the address of a device of the last discovery result
InDiscovery(addr) ==
    \E i \in 1..Len(discovered_chromecasts) :
        IpToString(discovered_chromecasts[i][2]) = addr

\* C10: selecting an address that is not in the discovery result replies "not
\* found" and keeps the selection; selecting one that is in it succeeds and sets
\* the selection and device_addr to it; and selecting it again changes nothing
SelectDeviceContract ==
    [][\A addr \in RequestAddrs :
          SelectChromecast(addr)
             => IF InDiscovery(addr)
                THEN /\ last'.res = "Success."
                     /\ device_addr' = addr
                     /\ Contains(discovered_chromecasts, current_chromecast')
                     /\ IpToString(current_chromecast'[2]) = addr
                     /\ (last.op = "select_chromecast" /\ last.res = "Success."
                         /\ device_addr = addr) => UNCHANGED vars
                ELSE /\ last'.res = "Chromecast not found."
                     /\ UNCHANGED <<current_chromecast, device_addr>>]_vars

\* C10 happens: the second of two discovered devices is selected
SecondDeviceSelected ==
    /\ Len(discovered_chromecasts) = 2
    /\ last.op = "select_chromecast" /\ last.res = "Success."
    /\ current_chromecast = discovered_chromecasts[2]
    /\ device_addr = IpToString(current_chromecast[2])

---------------------------------------------------------------------------
\* Properties of discovery

\* the call returned a list
ListReturned == scan.found.res = "ok"

\* the addresses of the returned list, in its order
ListedIps == [i \in 1..Len(scan.found.list) |-> scan.found.list[i][2]]

\* the items the call received: those before the first error of the stream
Received ==
    {i \in 1..Len(scan.stream) : \A j \in 1..i : scan.stream[j].ok}

\* the addresses announced by the address records of response i
AnnouncedIn(i) ==
    {to_ip_addr(scan.stream[i].records[k]) :
        k \in 1..Len(scan.stream[i].records)} \ {NoIp}

\* the response in which an address was first announced
FirstSeen(ip) ==
    CHOOSE i \in Received :
        ip \in AnnouncedIn(i) /\ \A j \in Received : ip \in AnnouncedIn(j) => i <= j

\* C18: a returned list holds every address announced by a received address
\* record, each once, in the order they were first seen, and nothing else
EachAnnouncedAddressListedOnce ==
    ListReturned
       => /\ {ListedIps[i] : i \in 1..Len(ListedIps)}
                = UNION {AnnouncedIn(i) : i \in Received}
          /\ \A i, j \in 1..Len(ListedIps) :
                i < j => (/\ ListedIps[i] # ListedIps[j]
                          /\ FirstSeen(ListedIps[i]) <= FirstSeen(ListedIps[j]))

\* C19: once the query is open the call returns a list, which pairs every
\* address taken from a response with its friendlyName when the description
\* request gave one, and with "Unknown" after any other outcome
NameResolutionNeverFails ==
    (scan.found # NotRun /\ scan.openOk)
       => /\ ListReturned
          /\ \A i \in Received :
                find_map(scan.stream[i].records) # NoIp
                   => LET ip == find_map(scan.stream[i].records) IN
                      Contains(scan.found.list,
                               <<IF scan.http[ip] = "named" THEN FriendlyName(ip)
                                 ELSE "Unknown", ip>>)

\* C20: with no response the call returns the empty list, and when the query
\* cannot be opened or the stream yields an error it does not return a list
MulticastFailureIsAnError ==
    scan.found # NotRun
       => /\ (scan.openOk /\ scan.stream = <<>>)
                => (ListReturned /\ scan.found.list = <<>>)
          /\ (~scan.openOk \/ \E i \in 1..Len(scan.stream) : ~scan.stream[i].ok)
                => ~ListReturned

---------------------------------------------------------------------------
\* Properties of the Api's control requests

ControlCommandOps == {"control_play", "control_pause", "control_stop", "control_seek"}

\* C22: the reply to a playback request whose command was not executed, or
\* did not succeed, is a failure reason, not the acknowledgement of success
ControlReplyReportsOutcome ==
    (last.op \in ControlCommandOps /\ last.call.res # "ok")
       => last.res # Acknowledged

\* C24: a Begin request is acknowledged, sends nothing to the device, leaves
\* the Caster as it was and leaves the handler running, streaming or not
BeginRequestIsAStub ==
    [][\A fail \in CommandFailures :
          HandleCastSignal("Begin", fail)
             => (/\ last'.res = Acknowledged
                 /\ last'.call = NoCall
                 /\ proc' = "running"
                 /\ UNCHANGED <<casterVars, threadVars, dev>>)]_vars

---------------------------------------------------------------------------
\* Properties of status serialization

\* the value of the field called name among the written fields, or None
FieldOf(name) ==
    LET hits == {i \in 1..Len(ser.out.fields) : ser.out.fields[i][1] = name}
    IN IF hits = {} THEN None ELSE ser.out.fields[CHOOSE i \in hits : TRUE][2]

FieldNames == {ser.out.fields[i][1] : i \in 1..Len(ser.out.fields)}

\* C21: serialize returns for every status; Inactive writes playbackState =
\* "Inactive" only; Active writes playbackState, currentTime when the time is
\* known and videoLength when a media description with a duration is there,
\* and nothing else; the declared count is the number of fields written
SerializationTotalAndExact ==
    ser.out # NotSerialized
       => /\ ser.out.res = "ok"
          /\ ser.out.declared = Len(ser.out.fields)
          /\ Cardinality(FieldNames) = Len(ser.out.fields)
          /\ IF ser.value = Inactive
             THEN ser.out.fields = << <<"playbackState", "Inactive">> >>
             ELSE LET e == ser.value.entry
                      known == e.media.present /\ e.media.duration # NoSeconds
                  IN /\ FieldOf("playbackState") = e.player_state
                     /\ FieldNames =
                          {"playbackState"}
                          \cup (IF e.current_time # NoSeconds THEN {"currentTime"} ELSE {})
                          \cup (IF known THEN {"videoLength"} ELSE {})
                     /\ e.current_time # NoSeconds => FieldOf("currentTime") = e.current_time
                     /\ known => FieldOf("videoLength") = e.media.duration

\* C25: no connection is used by two threads of control: device I/O of a status
\* thread's loop goes over the connection that thread opened, a command call
\* that opened a connection used its own, which is no status thread's, and a
\* call that opened none used none
ConnectionsNotShared ==
    /\ io.t # 0 => io.conn = ThreadConn(io.t)
    /\ last.call.opened
         => /\ last.call.conn = CallConn
            /\ \A t \in Threads : last.call.conn # ThreadConn(t)
    /\ ~last.call.opened => last.call.conn = NoConn

\* C25 happens: a pause went through on a connection of its own while a live
\* status thread had fetched over its connection
PauseBesideFetchingThread ==
    /\ last.op = "pause"
    /\ last.call.res = "ok"
    /\ io.t # 0
    /\ LiveThread(io.t)
    /\ io.did = "get_status"

\* thread t passes the time test in this step and goes on to request the status
IssuesFetch(t) == pc[t] = "recv" /\ pc'[t] = "fetch"

\* thread t starts or ends in this step
StartsOrEnds(t) == InLoop(t) # InLoop(t)' \/ pc'[t] = "setup" \/ pc[t] = "setup"

\* C26 as stated: a status request is issued only after MORE than the delay in
\* force has elapsed, 5000 ms for the first one and 500 ms afterwards
FetchOnlyAfterMoreThanDelay ==
    [][\A t \in Threads : IssuesFetch(t) => millis_since_last[t] > status_delay[t]]_vars

\* C26 amended: a status request is issued only when AT LEAST the delay in force
\* has elapsed since begin or the latest successful fetch; the delay in force is
\* 5000 ms until the thread issues its first request and 500 ms from then on;
\* the elapsed time is reset by exactly the steps that write a fetched result
\* to the status cell, and only grows otherwise
FetchOnlyAfterDelay ==
    [][\A t \in Threads :
         /\ IssuesFetch(t)
              => /\ millis_since_last[t] >= status_delay[t]
                 /\ status_delay'[t] = STATUS_UPDATE_INTERVAL
         /\ (status_delay'[t] # status_delay[t] /\ ~StartsOrEnds(t))
              => /\ IssuesFetch(t)
                 /\ status_delay[t] = FIRST_STATUS_DELAY
         /\ (InLoop(t) /\ status_delay[t] = FIRST_STATUS_DELAY)
              => pc[t] # "fetch"
         /\ ThreadFetch(t, TRUE)
              => /\ status' = MapStatus(dev.media)
                 /\ millis_since_last'[t] = 0
         /\ (millis_since_last'[t] < millis_since_last[t] /\ ~StartsOrEnds(t))
              => ThreadFetch(t, TRUE)
         /\ ThreadFetch(t, FALSE)
              => /\ millis_since_last'[t] = millis_since_last[t]
                 /\ status' = status
    ]_vars

\* C26 happens: a thread that fetched before is about to fetch again exactly one
\* polling interval after its latest successful fetch
SecondFetchAtInterval ==
    \E t \in Threads :
        /\ pc[t] = "fetch"
        /\ millis_since_last[t] = STATUS_UPDATE_INTERVAL
        /\ status # Inactive

\* C27: after a failed status fetch the thread issues its next fetch only when
\* a full polling interval has elapsed since the failed attempt (stated where
\* the clock still runs, below its cap)
RetryWaitsForInterval ==
    [][\A t \in Threads :
         (/\ IssuesFetch(t)
          /\ io.t = t
          /\ io.did = "get_status_failed"
          /\ millis_since_last[t] < ElapsedCap)
            => millis_since_last[t] - io.at >= STATUS_UPDATE_INTERVAL
    ]_vars

\* C28: the periodic fetch does not depend on the device sending: a thread that
\* waits in its receive with the polling interval elapsed and its shutdown
\* channel unsignalled eventually issues a status fetch, unless it is shut down
\* or ends first
FetchIndependentOfMessages ==
    \A t \in Threads :
        (/\ pc[t] = "recv"
         /\ chan[t] = "open"
         /\ millis_since_last[t] >= status_delay[t]
         /\ proc = "running")
        ~> (pc[t] = "fetch" \/ ~InLoop(t) \/ chan[t] # "open" \/ proc # "running")

\* the selection and the Caster's device address are those of a device of the
\* cached discovery result, or nothing is selected
SelectionInDiscovery ==
    current_chromecast # NoDevice
       => /\ Contains(discovered_chromecasts, current_chromecast)
          /\ device_addr = IpToString(current_chromecast[2])

\* a discover request that failed in this step left the cached result, the
\* selection and the device address as they were
FailedDiscoverChangesNothing ==
    (last'.op = "discover_chromecasts" /\ last'.res # "Success.")
       => UNCHANGED <<discovered_chromecasts, current_chromecast, device_addr>>

\* C31: after every discover and select request the selected device, and with
\* it the Caster's device address, is a member of the most recent discovery
\* result; a discover that failed left the cached result and the selection as
\* they were
SelectionWithinLatestDiscovery ==
    [][SelectionInDiscovery' /\ FailedDiscoverChangesNothing]_vars

===========================================================================
